---- MODULE Spec2Model ----
(***************************************************************************)
(* meli-token-manager: the token rotator (rotator.py), the Secret Manager  *)
(* wrapper (gcp_secret_storage.py), the OAuth bootstrap (initializer.py)   *)
(* and the token reader (token_access.py), as one state machine.           *)
(*                                                                         *)
(* Python values:                                                          *)
(*   - a string-or-None field is a string; None is the string None;       *)
(*   - an integer-or-absent field is <<>> (absent / None) or <<n>>;        *)
(*   - a token dict is a record of the five fields the code reads or       *)
(*     writes; the dict {} is EmptyDict;                                   *)
(*   - a text (file content, decoded secret payload) is a tagged record:   *)
(*     the empty text, a text that is not JSON, or the JSON text of a dict;*)
(*   - the token file is a text or Missing.                                *)
(***************************************************************************)
EXTENDS Integers, Sequences, FiniteSets

\* ------------------------------------------------------------------ bounds
MaxCycles == 2

\* ------------------------------------------------------- program constants
DEFAULT_ROTATION_INTERVAL == 14400
FailureBackoffCap == 600

\* ------------------------------------------------------------ Python values
None == "None"

Falsy(s) == s \in {None, ""}

EmptyDict ==
  [access_token |-> None, refresh_token |-> None,
   expires_in |-> <<>>, updated_at |-> <<>>, expires_at |-> <<>>]

Truthy(d) == d # EmptyDict

Missing == [t |-> "missing"]
EmptyText == [t |-> "empty"]
Garbage == [t |-> "garbage"]

json_dumps(d) == [t |-> "json", v |-> d]

\* json.loads: [ok, v]; ok = FALSE stands for the exception it raises.
json_loads(text) ==
  IF text.t = "json" THEN [ok |-> TRUE, v |-> text.v]
  ELSE [ok |-> FALSE, v |-> EmptyDict]

\* str.encode("utf-8") / bytes.decode("utf-8")
encode_utf8(text) == [bytes |-> text]
decode_utf8(data) == data.bytes

Min(a, b) == IF a < b THEN a ELSE b

\* The token set of the spec's scenario, as a bootstrap on another host left it.
SeedTokens ==
  [access_token |-> "A0", refresh_token |-> "R0",
   expires_in |-> <<21600>>, updated_at |-> <<>>, expires_at |-> <<>>]

\* The tokens the provider issues in refresh cycle n (1-based).
AccessOf(n) == <<"A1", "A2", "A3", "A4">>[n]
RefreshOf(n) == <<"R1", "R2", "R3", "R4">>[n]

Rotators == {"r1", "r2"}
Writers == Rotators \cup {"boot"}

VARIABLES
  file,        \* the token file: Missing or a text
  secretExists,\* the secret container exists in Secret Manager
  versions,    \* the secret's versions, oldest first: [payload, state]
  now,         \* time.time()
  active,      \* the Rotator processes that exist in this run
  rot,         \* per Rotator: its position, fields and locals
  ws,          \* per writer: the position and locals of its write_secret call
  boot,        \* the bootstrap flow: its position and locals
  reader,      \* the Token Reader call that has just returned, and its outcome
  http,        \* the refresh endpoint: the requests it has received and the
               \* refresh token of its last valid response that carried one
  gen          \* the order in which the token sets were obtained: the number
               \* of the one each writer holds, of the one in the token file
               \* (0: none) and of the one in each version of the secret

vars == <<file, secretExists, versions, now, active, rot, ws, boot, reader, http, gen>>

\* ------------------------------------------------ Secret Manager (service)
ENABLED_ == "ENABLED"
DISABLED_ == "DISABLED"

\* Variant: the path names the first version instead of "latest".
access_latest_First(exists, vs, callFails) ==
  IF callFails THEN [st |-> "error", data |-> encode_utf8(EmptyText)]
  ELSE IF ~exists \/ vs = <<>> THEN [st |-> "not_found", data |-> encode_utf8(EmptyText)]
  ELSE IF vs[1].state # ENABLED_ THEN [st |-> "error", data |-> encode_utf8(EmptyText)]
  ELSE [st |-> "ok", data |-> vs[1].payload]

\* access_secret_version(".../versions/latest"): the most recently created
\* version; NotFound without one, another error when it is disabled or when
\* the call itself fails.
access_latest(exists, vs, callFails) ==
  IF callFails THEN [st |-> "error", data |-> encode_utf8(EmptyText)]
  ELSE IF ~exists \/ vs = <<>> THEN [st |-> "not_found", data |-> encode_utf8(EmptyText)]
  ELSE IF vs[Len(vs)].state # ENABLED_ THEN [st |-> "error", data |-> encode_utf8(EmptyText)]
  ELSE [st |-> "ok", data |-> vs[Len(vs)].payload]

\* GCPSecretStorage.read_secret: [st, text]; st = "none" is the None it
\* returns on NotFound, st = "error" the exception it lets through.
read_secret(exists, vs, callFails) ==
  LET response == access_latest(exists, vs, callFails) IN
  IF response.st = "not_found" THEN [st |-> "none", text |-> EmptyText]
  ELSE IF response.st = "error" THEN [st |-> "error", text |-> EmptyText]
  ELSE [st |-> "ok", text |-> decode_utf8(response.data)]

\* `if not payload`
NoPayload(rs) == rs.st = "none" \/ rs.text = EmptyText

\* Variant: only the version right before the new one is considered.
CallsDisable_PreviousOnly(idx, keep_version, listed) ==
  idx = keep_version - 1 /\ listed[idx] = ENABLED_

\* Variant: the new version is not skipped.
CallsDisable_NoKeep(idx, keep_version, listed) ==
  listed[idx] = ENABLED_

\* _disable_prior_versions, one iteration of `for version in versions`:
\* does this iteration call disable_secret_version?
CallsDisable(idx, keep_version, listed) ==
  idx # keep_version /\ listed[idx] = ENABLED_

\* ------------------------------------------------------------ Token Rotator
\* TokenRotator._load_tokens_from_file
_load_tokens_from_file(f) ==
  IF f = Missing THEN EmptyDict
  ELSE IF json_loads(f).ok THEN json_loads(f).v ELSE EmptyDict

\* Variant: without a stored payload, a token set is made up from the
\* configured refresh token.
_load_tokens_from_secret_ConfigFallback(rs) ==
  IF NoPayload(rs) THEN [EmptyDict EXCEPT !.refresh_token = "RC"]
  ELSE IF json_loads(rs.text).ok THEN json_loads(rs.text).v ELSE EmptyDict

\* TokenRotator._load_tokens_from_secret, given read_secret's (non-raising) result
_load_tokens_from_secret(rs) ==
  IF NoPayload(rs) THEN EmptyDict
  ELSE IF json_loads(rs.text).ok THEN json_loads(rs.text).v ELSE EmptyDict

\* Variant: a configured refresh token is preferred to the one in memory.
RefreshTokenToUse_ConfigFirst(tokens, cfg_refresh) ==
  IF cfg_refresh = "RC" THEN "RC"
  ELSE IF ~Falsy(tokens.refresh_token) THEN tokens.refresh_token ELSE cfg_refresh

\* refresh_once: the refresh token to send; a configured value of None stands
\* for config.require raising
RefreshTokenToUse(tokens, cfg_refresh) ==
  IF ~Falsy(tokens.refresh_token) THEN tokens.refresh_token ELSE cfg_refresh

\* The values MELI_REFRESH_TOKEN may have in the configuration: fixed once read.
ConfiguredRefreshTokens(c) ==
  IF ~Falsy(c.tokens.refresh_token) THEN {c.cfg_refresh}
  ELSE IF c.cfg_refresh = "unread" THEN {None, "RC"}
  ELSE {c.cfg_refresh}

\* Variant: the response's refresh_token is taken as it is.
BuildTokenData_NoCarry(payload, refresh_token, t) ==
  [access_token |-> payload.access_token,
   refresh_token |-> payload.refresh_token,
   expires_in |-> payload.expires_in,
   updated_at |-> <<t>>,
   expires_at |-> IF payload.expires_in # <<>> /\ payload.expires_in[1] # 0
                  THEN <<t + payload.expires_in[1]>> ELSE <<>>]

\* refresh_once: token_data built from the response
BuildTokenData(payload, refresh_token, t) ==
  [access_token |-> payload.access_token,
   refresh_token |-> IF Falsy(payload.refresh_token) THEN refresh_token
                     ELSE payload.refresh_token,
   expires_in |-> payload.expires_in,
   updated_at |-> <<t>>,
   expires_at |-> IF payload.expires_in # <<>> /\ payload.expires_in[1] # 0
                  THEN <<t + payload.expires_in[1]>> ELSE <<>>]

\* Variant: only a missing access_token is refused, an empty one passes.
NoAccessToken_MissingOnly(token_data) == token_data.access_token = None

\* refresh_once: `if not token_data.get("access_token")`
NoAccessToken(token_data) == Falsy(token_data.access_token)

\* run_forever: the interval in use
LoopInterval(interval_seconds, rotation_interval_seconds) ==
  IF interval_seconds # 0 THEN interval_seconds
  ELSE IF rotation_interval_seconds # 0 THEN rotation_interval_seconds
  ELSE DEFAULT_ROTATION_INTERVAL

\* Variant: the full interval after a failure too.
SleepAfterFailure_FullInterval(interval) == interval

\* run_forever: the sleep after a failed cycle and after a successful one
SleepAfterFailure(interval) == Min(FailureBackoffCap, interval)
SleepAfterSuccess(interval) == interval

\* ------------------------------------------------------------------- state
NoResponse == [access_token |-> None, refresh_token |-> None, expires_in |-> <<>>]

\* The refresh endpoint's successful answers in cycle n.
Responses(n) ==
  {[access_token |-> AccessOf(n), refresh_token |-> RefreshOf(n), expires_in |-> <<21600>>],
   [access_token |-> AccessOf(n), refresh_token |-> None, expires_in |-> <<>>],
   [access_token |-> AccessOf(n), refresh_token |-> "", expires_in |-> <<0>>],
   [access_token |-> None, refresh_token |-> RefreshOf(n), expires_in |-> <<21600>>],
   [access_token |-> "", refresh_token |-> None, expires_in |-> <<>>]}

\* The token endpoint's successful answers to an authorization-code exchange.
BootResponses ==
  {[access_token |-> tk[1], refresh_token |-> tk[2], expires_in |-> <<21600>>,
    updated_at |-> <<>>, expires_at |-> <<>>] :
     tk \in {<<"A0", "R0">>, <<"A0", None>>, <<None, "R0">>}}

\* Path.write_text: written, refused before the file is opened, or failed
\* after open("w") has truncated it.
FileOutcomes == {"ok", "refused", "truncated"}

\* Variant: a write that reports success leaves the file as it was.
FileAfter_KeepsOld(f, text, outcome) ==
  IF outcome = "truncated" THEN EmptyText ELSE f

FileAfter(f, text, outcome) ==
  IF outcome = "ok" THEN text
  ELSE IF outcome = "truncated" THEN EmptyText
  ELSE f

IdleCall == [pc |-> "idle", payload |-> encode_utf8(EmptyText), keep |-> 0,
             listed |-> <<>>, idx |-> 0,
             attempted |-> {},        \* versions disable_secret_version was called for
             swallowed |-> FALSE]     \* a list or disable failure was swallowed

StartCall(data) == [IdleCall EXCEPT !.pc = "ensure", !.payload = data]

NewRotator(mode, interval) ==
  [pc |-> "uninit", mode |-> mode, interval |-> interval,
   cfg_refresh |-> "unread",      \* MELI_REFRESH_TOKEN, once the config was asked
   tokens |-> EmptyDict,          \* self._tokens (EmptyDict: not yet set)
   cand |-> EmptyDict,            \* _bootstrap_tokens: tokens
   src |-> "none",                \* where _bootstrap_tokens found the tokens
   refresh_token |-> None,        \* refresh_once: refresh_token
   got |-> FALSE,                 \* the endpoint answered this cycle
   payload |-> NoResponse,        \* refresh_once: payload
   token_data |-> EmptyDict,      \* refresh_once: token_data
   tokens0 |-> EmptyDict,         \* self._tokens when refresh_once was called
   cycle |-> 0,                   \* refresh_once calls so far
   err |-> "",                    \* the exception raised, if any
   fileAttempted |-> FALSE,       \* this cycle called _write_tokens_file
   secretAttempted |-> FALSE,     \* this cycle called the secret store
   startedAt |-> 0,               \* when this refresh_once call began
   prevStartedAt |-> 0,           \* when the one before it began
   prevFailed |-> FALSE,          \* the one before it raised
   lastFailed |-> FALSE]          \* the last finished call raised

NoRead ==
  [called |-> FALSE,
   data |-> [ok |-> FALSE, err |-> "", payload |-> EmptyDict],
   access |-> [ok |-> FALSE, err |-> "", token |-> None]]

Version(data) == [payload |-> data, state |-> ENABLED_]

InitialSecrets ==
  {<<FALSE, <<>>>>,
   <<TRUE, <<Version(encode_utf8(Garbage))>>>>,
   <<TRUE, <<Version(encode_utf8(json_dumps(SeedTokens)))>>>>}

\* (mode, interval_seconds, rotation_interval_seconds) of a run
Runs == {<<"once", 0, 0>>, <<"loop", 0, 0>>, <<"loop", 300, 0>>}

InitWith(rs) ==
  /\ file \in {Missing, Garbage}
  /\ \E s \in InitialSecrets : secretExists = s[1] /\ versions = s[2]
  /\ now = 0
  /\ active = rs
  /\ \E run \in Runs :
       rot = [r \in Rotators |->
                IF r \in rs
                THEN NewRotator(run[1], LoopInterval(run[2], run[3]))
                ELSE NewRotator("once", DEFAULT_ROTATION_INTERVAL)]
  /\ ws = [w \in Writers |-> IdleCall]
  /\ boot = [pc |-> "idle", tokens |-> EmptyDict]
  /\ reader = NoRead
  /\ http = [requests |-> 0, sent |-> None, issued |-> None]
  /\ gen = [count |-> Len(versions), held |-> [w \in Writers |-> 0], file |-> 0,
            versions |-> [i \in 1..Len(versions) |-> i]]

Init == InitWith({"r1"})

\* One writer at a time: with a single Rotator, the bootstrap flow and the
\* Rotator's calls do not overlap.
Serial == Cardinality(active) = 1

CallOver(w) == ws[w].pc \in {"returned", "raised"}

Raised(r) == rot[r].pc = "raised" \/ (rot[r].pc = "write_secret" /\ ws[r].pc = "raised")
Returned(r) == rot[r].pc = "write_secret" /\ ws[r].pc = "returned"

RotatorQuiescent(r) ==
  rot[r].pc \in {"uninit", "ready", "done", "exit_error", "fatal", "init_error"}

BootQuiescent ==
  boot.pc \in {"idle", "failed"} \/ (boot.pc = "write_secret" /\ CallOver("boot"))

\* Writer w has obtained a token set from the endpoint: it is the newest.
Obtained(g, w) == [g EXCEPT !.count = g.count + 1, !.held[w] = g.count + 1]

\* Writer w has written the token set it holds to the token file.
FileWritten(g, w, outcome) ==
  [g EXCEPT !.file = IF outcome = "ok" THEN g.held[w]
                     ELSE IF outcome = "truncated" THEN 0
                     ELSE g.file]

\* ------------------------------------------- GCPSecretStorage.write_secret
\* ensure_secret: get_secret and, on NotFound, create_secret
EnsureSecret(w) ==
  /\ ws[w].pc = "ensure"
  /\ \E ok \in BOOLEAN :
       /\ secretExists' = (secretExists \/ ok)
       /\ ws' = [ws EXCEPT ![w].pc = IF ok THEN "add" ELSE "raised"]
  /\ rot' = IF w \in Rotators THEN [rot EXCEPT ![w].secretAttempted = TRUE] ELSE rot
  /\ reader' = NoRead
  /\ UNCHANGED <<file, versions, now, active, boot, http, gen>>

\* add_secret_version: the new version is created enabled
AddSecretVersion(w) ==
  /\ ws[w].pc = "add"
  /\ \E ok \in BOOLEAN :
       IF ok
       THEN /\ versions' = Append(versions, Version(ws[w].payload))
            /\ ws' = [ws EXCEPT ![w].pc = "list", ![w].keep = Len(versions) + 1]
            /\ gen' = [gen EXCEPT !.versions = Append(gen.versions, gen.held[w])]
       ELSE /\ ws' = [ws EXCEPT ![w].pc = "raised"]
            /\ UNCHANGED <<versions, gen>>
  /\ reader' = NoRead
  /\ UNCHANGED <<file, secretExists, now, active, rot, boot, http>>

\* _disable_prior_versions: the loop runs on, without a remote call, through
\* the iterations from `from` that skip their version, and stops at the next
\* one that calls disable_secret_version, or returns at the end of the list.
RunLoop(c, from) ==
  LET calling == {j \in from..Len(c.listed) : CallsDisable(j, c.keep, c.listed)} IN
  IF calling = {} THEN [c EXCEPT !.pc = "returned", !.idx = Len(c.listed) + 1]
  ELSE [c EXCEPT !.pc = "disable",
                 !.idx = CHOOSE j \in calling : \A k \in calling : j <= k]

\* _disable_prior_versions: list_secret_versions; on failure it returns
ListSecretVersions(w) ==
  /\ ws[w].pc = "list"
  /\ \E ok \in BOOLEAN :
       ws' = IF ok
             THEN [ws EXCEPT ![w] =
                     RunLoop([ws[w] EXCEPT !.listed =
                                [i \in 1..Len(versions) |-> versions[i].state]], 1)]
             ELSE [ws EXCEPT ![w].pc = "returned", ![w].swallowed = TRUE]
  /\ reader' = NoRead
  /\ UNCHANGED <<file, secretExists, versions, now, active, rot, boot, http, gen>>

\* Variant: the first failed disable call ends the loop.
DisablePriorVersion_StopOnFailure(w) ==
  /\ ws[w].pc = "disable"
  /\ \E ok \in BOOLEAN :
       /\ versions' = IF ok THEN [versions EXCEPT ![ws[w].idx].state = DISABLED_]
                      ELSE versions
       /\ ws' = [ws EXCEPT ![w] =
                   IF ok
                   THEN RunLoop([ws[w] EXCEPT !.attempted = ws[w].attempted \cup {ws[w].idx}],
                                ws[w].idx + 1)
                   ELSE [ws[w] EXCEPT !.pc = "returned", !.swallowed = TRUE,
                                      !.attempted = ws[w].attempted \cup {ws[w].idx}]]
  /\ reader' = NoRead
  /\ UNCHANGED <<file, secretExists, now, active, rot, boot, http, gen>>

\* _disable_prior_versions: disable_secret_version(name=version.name); a
\* failure is swallowed and the loop continues
DisablePriorVersion(w) ==
  /\ ws[w].pc = "disable"
  /\ \E ok \in BOOLEAN :
       /\ versions' = IF ok THEN [versions EXCEPT ![ws[w].idx].state = DISABLED_]
                      ELSE versions
       /\ ws' = [ws EXCEPT ![w] =
                   RunLoop([ws[w] EXCEPT !.swallowed = ws[w].swallowed \/ ~ok,
                                         !.attempted = ws[w].attempted \cup {ws[w].idx}],
                           ws[w].idx + 1)]
  /\ reader' = NoRead
  /\ UNCHANGED <<file, secretExists, now, active, rot, boot, http, gen>>

\* ------------------------------------------------- TokenRotator.__init__
\* _bootstrap_tokens: the file first
LoadTokensFromFile(r) ==
  /\ r \in active
  /\ rot[r].pc = "uninit"
  /\ Serial => BootQuiescent
  /\ LET tokens == _load_tokens_from_file(file) IN
     rot' = IF Truthy(tokens)
            THEN [rot EXCEPT ![r].pc = "ready", ![r].tokens = tokens, ![r].src = "file"]
            ELSE [rot EXCEPT ![r].pc = "load_secret"]
  /\ gen' = IF Truthy(_load_tokens_from_file(file))
            THEN [gen EXCEPT !.held[r] = gen.file] ELSE gen
  /\ reader' = NoRead
  /\ UNCHANGED <<file, secretExists, versions, now, active, ws, boot, http>>

\* _bootstrap_tokens: then the secret store
LoadTokensFromSecret(r) ==
  /\ rot[r].pc = "load_secret"
  /\ \E callFails \in BOOLEAN :
       LET rs == read_secret(secretExists, versions, callFails)
           tokens == _load_tokens_from_secret(rs)
       IN rot' = IF rs.st = "error"
                 THEN [rot EXCEPT ![r].pc = "init_error", ![r].err = "secret_read"]
                 ELSE IF Truthy(tokens)
                 THEN [rot EXCEPT ![r].pc = "seed_file", ![r].cand = tokens]
                 ELSE [rot EXCEPT ![r].pc = "fatal", ![r].err = "no_tokens"]
  /\ gen' = IF rot'[r].pc = "seed_file" /\ versions # <<>>
            THEN [gen EXCEPT !.held[r] = gen.versions[Len(versions)]] ELSE gen
  /\ reader' = NoRead
  /\ UNCHANGED <<file, secretExists, versions, now, active, ws, boot, http>>

\* Variant: the tokens are returned without the file being written.
SeedTokensFile_NoWrite(r) ==
  /\ rot[r].pc = "seed_file"
  /\ rot' = [rot EXCEPT ![r].pc = "ready", ![r].tokens = rot[r].cand,
                        ![r].src = "secret"]
  /\ reader' = NoRead
  /\ UNCHANGED <<file, secretExists, versions, now, active, ws, boot, http, gen>>

\* _bootstrap_tokens: _write_tokens_file(tokens), then return tokens
SeedTokensFile(r) ==
  /\ rot[r].pc = "seed_file"
  /\ \E outcome \in FileOutcomes :
       /\ file' = FileAfter(file, json_dumps(rot[r].cand), outcome)
       /\ rot' = IF outcome = "ok"
                 THEN [rot EXCEPT ![r].pc = "ready", ![r].tokens = rot[r].cand,
                                  ![r].src = "secret"]
                 ELSE [rot EXCEPT ![r].pc = "init_error", ![r].err = "file_write"]
       /\ gen' = FileWritten(gen, r, outcome)
  /\ reader' = NoRead
  /\ UNCHANGED <<secretExists, versions, now, active, ws, boot, http>>

\* ------------------------------------------------ TokenRotator.refresh_once
\* Variant: the assignment is missing at this point.
CommitTokens_Skipped(tokens, token_data) == tokens

\* `self._tokens = token_data`
CommitTokens(tokens, token_data) == token_data

\* Variant: a failed request is sent once more within the call.
Requested_Retried(h, refresh_token) ==
  [h EXCEPT !.requests = h.requests + 2, !.sent = refresh_token]

\* What a request leaves in the endpoint's log.
Requested(h, refresh_token) ==
  [h EXCEPT !.requests = h.requests + 1, !.sent = refresh_token]

\* What a successful answer leaves there: a response with an access_token and
\* a refresh_token has replaced the refresh token that was sent.
Answered(h, payload) ==
  IF ~Falsy(payload.access_token) /\ ~Falsy(payload.refresh_token)
  THEN [h EXCEPT !.issued = payload.refresh_token]
  ELSE h

\* The call's locals and per-cycle bookkeeping at entry.
EnterCycle(c, refresh_token, t) ==
  [c EXCEPT !.cycle = c.cycle + 1, !.refresh_token = refresh_token,
            !.tokens0 = c.tokens,
            !.prevStartedAt = c.startedAt, !.startedAt = t,
            !.prevFailed = c.lastFailed]

\* The call is over: its locals are gone.
LeaveCycle(c) ==
  [c EXCEPT !.refresh_token = None, !.got = FALSE, !.payload = NoResponse,
            !.token_data = EmptyDict, !.tokens0 = EmptyDict, !.err = "",
            !.fileAttempted = FALSE, !.secretAttempted = FALSE]

\* After a response: build token_data, validate, commit in memory.
AfterResponse(c, payload, t) ==
  LET token_data == BuildTokenData(payload, c.refresh_token, t)
      d == [c EXCEPT !.got = TRUE, !.payload = payload, !.token_data = token_data]
  IN IF NoAccessToken(token_data)
     THEN [d EXCEPT !.pc = "raised", !.err = "no_access_token"]
     ELSE [d EXCEPT !.pc = "write_file", !.tokens = CommitTokens(c.tokens, token_data)]

\* refresh_once up to the first write: pick the refresh token, POST it to the
\* endpoint, build and validate token_data, replace self._tokens.
RequestRefresh(r) ==
  /\ rot[r].pc = "ready"
  /\ rot[r].cycle < MaxCycles
  /\ Serial => BootQuiescent
  /\ \E cfg \in ConfiguredRefreshTokens(rot[r]) :
     LET refresh_token == RefreshTokenToUse(rot[r].tokens, cfg)
         c == [EnterCycle(rot[r], refresh_token, now) EXCEPT !.cfg_refresh = cfg]
     IN IF refresh_token = None
        THEN /\ rot' = [rot EXCEPT ![r] = [c EXCEPT !.pc = "raised", !.err = "config"]]
             /\ UNCHANGED <<http, gen>>
        ELSE \E answered \in BOOLEAN :
               IF answered
               THEN \E payload \in Responses(c.cycle) :
                      /\ http' = Answered(Requested(http, refresh_token), payload)
                      /\ rot' = [rot EXCEPT ![r] = AfterResponse(c, payload, now)]
                      /\ gen' = IF rot'[r].pc = "write_file" THEN Obtained(gen, r)
                                ELSE gen
               ELSE /\ http' = Requested(http, refresh_token)
                    /\ rot' = [rot EXCEPT ![r] = [c EXCEPT !.pc = "raised", !.err = "http"]]
                    /\ UNCHANGED gen
  /\ reader' = NoRead
  /\ UNCHANGED <<file, secretExists, versions, now, active, ws, boot>>

\* Variant: write_secret is called first, the file is not written before it.
WriteTokensFile_SecretFirst(r) ==
  /\ rot[r].pc = "write_file"
  /\ rot' = [rot EXCEPT ![r].pc = "write_secret"]
  /\ ws' = [ws EXCEPT ![r] = StartCall(encode_utf8(json_dumps(rot[r].token_data)))]
  /\ reader' = NoRead
  /\ UNCHANGED <<file, secretExists, versions, now, active, boot, http, gen>>

\* Variant: a failed file write does not end the call, write_secret follows.
WriteTokensFile_ContinuesOnFailure(r) ==
  /\ rot[r].pc = "write_file"
  /\ LET text == json_dumps(rot[r].token_data) IN
     \E outcome \in FileOutcomes :
       /\ file' = FileAfter(file, text, outcome)
       /\ rot' = [rot EXCEPT ![r].pc = "write_secret", ![r].fileAttempted = TRUE]
       /\ ws' = [ws EXCEPT ![r] = StartCall(encode_utf8(text))]
       /\ gen' = FileWritten(gen, r, outcome)
  /\ reader' = NoRead
  /\ UNCHANGED <<secretExists, versions, now, active, boot, http>>

\* refresh_once: _write_tokens_file(token_data), then the call of write_secret
WriteTokensFile(r) ==
  /\ rot[r].pc = "write_file"
  /\ LET text == json_dumps(rot[r].token_data) IN
     \E outcome \in FileOutcomes :
       /\ file' = FileAfter(file, text, outcome)
       /\ rot' = IF outcome = "ok"
                 THEN [rot EXCEPT ![r].pc = "write_secret", ![r].fileAttempted = TRUE]
                 ELSE [rot EXCEPT ![r].pc = "raised", ![r].err = "file_write",
                                  ![r].fileAttempted = TRUE]
       /\ ws' = IF outcome = "ok"
                THEN [ws EXCEPT ![r] = StartCall(encode_utf8(text))]
                ELSE ws
       /\ gen' = FileWritten(gen, r, outcome)
  /\ reader' = NoRead
  /\ UNCHANGED <<secretExists, versions, now, active, boot, http>>

\* ------------------------------------------------ TokenRotator.run_forever
\* the sleep that ends an iteration of `while True`
Sleep(r) ==
  /\ rot[r].mode = "loop"
  /\ Raised(r) \/ Returned(r)
  /\ now' = now + (IF Raised(r) THEN SleepAfterFailure(rot[r].interval)
                   ELSE SleepAfterSuccess(rot[r].interval))
  /\ rot' = [rot EXCEPT ![r] = [LeaveCycle(rot[r]) EXCEPT !.pc = "ready",
                                                          !.lastFailed = Raised(r)]]
  /\ ws' = [ws EXCEPT ![r] = IdleCall]
  /\ reader' = NoRead
  /\ UNCHANGED <<file, secretExists, versions, active, boot, http, gen>>

\* rotator.refresh_once (module level): the one-shot call returns or raises
ExitOnce(r) ==
  /\ rot[r].mode = "once"
  /\ Raised(r) \/ Returned(r)
  /\ rot' = [rot EXCEPT ![r].pc = IF Raised(r) THEN "exit_error" ELSE "done"]
  /\ reader' = NoRead
  /\ UNCHANGED <<file, secretExists, versions, now, active, ws, boot, http, gen>>

\* ---------------------------------------------- initializer.bootstrap_tokens
\* the authorization-code exchange (the flow is run once)
BootExchange ==
  /\ boot.pc = "idle"
  /\ Serial => \A r \in active : RotatorQuiescent(r)
  /\ \E answered \in BOOLEAN :
       IF answered
       THEN /\ \E tokens \in BootResponses :
                 boot' = [pc |-> "write_file", tokens |-> tokens]
            /\ gen' = Obtained(gen, "boot")
       ELSE /\ boot' = [pc |-> "failed", tokens |-> EmptyDict]
            /\ UNCHANGED gen
  /\ reader' = NoRead
  /\ UNCHANGED <<file, secretExists, versions, now, active, rot, ws, http>>

\* _write_tokens_file(token_file_path, tokens), then the call of write_secret
BootWriteFile ==
  /\ boot.pc = "write_file"
  /\ LET text == json_dumps(boot.tokens) IN
     \E outcome \in FileOutcomes :
       /\ file' = FileAfter(file, text, outcome)
       /\ boot' = [boot EXCEPT !.pc = IF outcome = "ok" THEN "write_secret" ELSE "failed"]
       /\ ws' = IF outcome = "ok"
                THEN [ws EXCEPT !["boot"] = StartCall(encode_utf8(text))]
                ELSE ws
       /\ gen' = FileWritten(gen, "boot", outcome)
  /\ reader' = NoRead
  /\ UNCHANGED <<secretExists, versions, now, active, rot, http>>

\* ------------------------------------------------------------ Token Reader
\* get_token_payload, given read_secret's result: [ok, err, payload]
get_token_payload(rs) ==
  IF rs.st = "error" THEN [ok |-> FALSE, err |-> "secret_read", payload |-> EmptyDict]
  ELSE IF NoPayload(rs) THEN [ok |-> FALSE, err |-> "not_found", payload |-> EmptyDict]
  ELSE IF ~json_loads(rs.text).ok
  THEN [ok |-> FALSE, err |-> "invalid_json", payload |-> EmptyDict]
  ELSE [ok |-> TRUE, err |-> "", payload |-> json_loads(rs.text).v]

\* get_access_token, given get_token_payload's result: [ok, err, token]
get_access_token(data) ==
  IF ~data.ok THEN [ok |-> FALSE, err |-> data.err, token |-> None]
  ELSE IF Falsy(data.payload.access_token)
  THEN [ok |-> FALSE, err |-> "no_access_token", token |-> None]
  ELSE [ok |-> TRUE, err |-> "", token |-> data.payload.access_token]

\* Variant: without a payload in the secret store, the token file is read.
ReaderCall_FileFallback ==
  /\ LET rs == read_secret(secretExists, versions, FALSE)
         data == IF NoPayload(rs) /\ file # Missing
                 THEN get_token_payload([st |-> "ok", text |-> file])
                 ELSE get_token_payload(rs)
     IN reader' = [called |-> TRUE, data |-> data, access |-> get_access_token(data)]
  /\ UNCHANGED <<file, secretExists, versions, now, active, rot, ws, boot, http, gen>>

\* A call of get_access_token, and in it the call of get_token_payload; the
\* access_secret_version call itself goes through.
ReaderCall ==
  /\ LET data == get_token_payload(read_secret(secretExists, versions, FALSE))
     IN reader' = [called |-> TRUE, data |-> data, access |-> get_access_token(data)]
  /\ UNCHANGED <<file, secretExists, versions, now, active, rot, ws, boot, http, gen>>

\* ------------------------------------------------------------ specification
Next ==
  \/ \E r \in active : LoadTokensFromFile(r)
  \/ \E r \in active : LoadTokensFromSecret(r)
  \/ \E r \in active : SeedTokensFile(r)
  \/ \E r \in active : RequestRefresh(r)
  \/ \E r \in active : WriteTokensFile(r)
  \/ \E r \in active : Sleep(r)
  \/ \E r \in active : ExitOnce(r)
  \/ \E w \in Writers : EnsureSecret(w)
  \/ \E w \in Writers : AddSecretVersion(w)
  \/ \E w \in Writers : ListSecretVersions(w)
  \/ \E w \in Writers : DisablePriorVersion(w)
  \/ BootExchange
  \/ BootWriteFile
  \/ ReaderCall

Spec == Init /\ [][Next]_vars

\* ------------------------------------- two Rotators against the same secret
\* Two one-shot runs started against the token set a bootstrap left in the
\* secret store; a run of one Rotator alone is kept beside it for comparison.
InitTwo ==
  /\ file \in {Missing, json_dumps(SeedTokens)}
  /\ secretExists = TRUE
  /\ versions = <<Version(encode_utf8(json_dumps(SeedTokens)))>>
  /\ now = 0
  /\ active \in {{"r1"}, Rotators}
  /\ rot = [r \in Rotators |-> NewRotator("once", DEFAULT_ROTATION_INTERVAL)]
  /\ ws = [w \in Writers |-> IdleCall]
  /\ boot = [pc |-> "idle", tokens |-> EmptyDict]
  /\ reader = NoRead
  /\ http = [requests |-> 0, sent |-> None, issued |-> None]
  /\ gen = [count |-> 1, held |-> [w \in Writers |-> 0],
            file |-> IF file = Missing THEN 0 ELSE 1, versions |-> <<1>>]

\* The steps of the Rotators and of the Token Reader, in any interleaving.
NextTwo ==
  \/ \E r \in active : LoadTokensFromFile(r)
  \/ \E r \in active : LoadTokensFromSecret(r)
  \/ \E r \in active : SeedTokensFile(r)
  \/ \E r \in active : RequestRefresh(r)
  \/ \E r \in active : WriteTokensFile(r)
  \/ \E r \in active : ExitOnce(r)
  \/ \E w \in Rotators : EnsureSecret(w)
  \/ \E w \in Rotators : AddSecretVersion(w)
  \/ \E w \in Rotators : ListSecretVersions(w)
  \/ \E w \in Rotators : DisablePriorVersion(w)
  \/ ReaderCall

SpecTwo == InitTwo /\ [][NextTwo]_vars

\* ================================================================== claims
\* The refresh_once call of Rotator r has raised.
CallRaised(r) == Raised(r) \/ rot[r].pc = "exit_error"

\* The refresh_once call of Rotator r has returned normally.
CallReturned(r) == Returned(r) \/ rot[r].pc = "done"

\* The in-memory token set of r is the token set built in this cycle.
Committed(r) == rot[r].got /\ rot[r].tokens = rot[r].token_data

\* C1: a refresh cycle in which the endpoint answered successfully with a
\* missing or empty access_token has raised the "no access_token" error, has
\* attempted no write to the token file or to the secret store, and has left
\* the in-memory token set as it was when the call began.
C1_NoAccessTokenNoWrite ==
  \A r \in active :
    (rot[r].got /\ Falsy(rot[r].payload.access_token)) =>
      /\ CallRaised(r)
      /\ rot[r].err = "no_access_token"
      /\ ~rot[r].fileAttempted
      /\ ~rot[r].secretAttempted
      /\ ws[r].pc = "idle"
      /\ rot[r].tokens = rot[r].tokens0

\* C1 witness: a second cycle answered with an empty access_token, after a
\* first cycle that replaced the in-memory token set.
C1_Witness ==
  \E r \in active :
    /\ rot[r].got /\ rot[r].payload.access_token = ""
    /\ rot[r].cycle = 2 /\ rot[r].pc = "raised"
    /\ rot[r].tokens.access_token = AccessOf(1)
    /\ rot[r].tokens = rot[r].tokens0

\* C2: in loop mode no refresh failure ends the loop, and each cycle after the
\* first begins min(600, interval) seconds after the previous one began when
\* that one failed, and interval seconds after it when it succeeded.
C2_LoopSurvivesFailures ==
  \A r \in active :
    rot[r].mode = "loop" =>
      /\ rot[r].pc \notin {"done", "exit_error"}
      /\ rot[r].cycle >= 2 =>
           rot[r].startedAt - rot[r].prevStartedAt =
             IF rot[r].prevFailed
             THEN (IF rot[r].interval < 600 THEN rot[r].interval ELSE 600)
             ELSE rot[r].interval

\* C2 witness: attempt 1 failed, attempt 2 succeeded 600 s later (interval 14400).
C2_Witness ==
  \E r \in active :
    /\ rot[r].mode = "loop" /\ rot[r].interval = 14400
    /\ rot[r].cycle = 2 /\ rot[r].prevFailed /\ Returned(r)
    /\ rot[r].startedAt - rot[r].prevStartedAt = 600

SecretHoldsTokenSet ==
  /\ secretExists /\ versions # <<>>
  /\ versions[Len(versions)].state = "ENABLED"
  /\ versions[Len(versions)].payload.bytes.t = "json"
  /\ versions[Len(versions)].payload.bytes.v # EmptyDict

SecretTokenSet == versions[Len(versions)].payload.bytes.v

\* The secret is absent, has no version, or its latest payload is not JSON.
SecretYieldsNothing ==
  \/ ~secretExists
  \/ versions = <<>>
  \/ versions[Len(versions)].payload.bytes.t \in {"garbage", "empty"}

\* The token file is missing, empty or not JSON.
FileUnusable == file.t \in {"missing", "empty", "garbage"}

\* C4: initialization with an unusable token file and a secret store whose
\* latest version parses as a token set: the file never raises and is never
\* adopted, the secret store's token set is the one taken, and the step that
\* makes the Rotator ready from the secret store leaves the in-memory token
\* set and the token file holding exactly the secret store's token set.
C4_InitSeedsFileFromSecret ==
  [][\A r \in active :
       /\ (rot[r].pc = "uninit" /\ rot'[r].pc # "uninit" /\ FileUnusable)
            => rot'[r].pc = "load_secret"
       /\ (rot[r].pc = "load_secret" /\ rot'[r].pc # "load_secret" /\ SecretHoldsTokenSet)
            => \/ rot'[r].pc = "seed_file" /\ rot'[r].cand = SecretTokenSet
               \/ rot'[r].pc = "init_error" /\ rot'[r].err = "secret_read"
       /\ (rot[r].pc = "seed_file" /\ rot'[r].pc = "ready")
            => /\ rot'[r].src = "secret"
               /\ SecretHoldsTokenSet
               /\ rot'[r].tokens = SecretTokenSet
               /\ file' = [t |-> "json", v |-> SecretTokenSet]
               /\ versions' = versions
    ]_vars

\* C4 witness: a Rotator made ready from the secret store's token set, the
\* file re-seeded with it.
C4_Witness ==
  \E r \in active :
    /\ rot[r].pc = "ready" /\ rot[r].src = "secret" /\ rot[r].cycle = 0
    /\ boot.pc = "idle"
    /\ SecretHoldsTokenSet
    /\ rot[r].tokens = SecretTokenSet
    /\ file = [t |-> "json", v |-> SecretTokenSet]

\* C5: when neither the file nor the secret store yields a token set,
\* initialization raises: the Rotator does not become ready, the step writes
\* nothing and sends no request, and a Rotator that failed fatally does
\* nothing more (no retry, no request, no write).
C5_NoTokensIsFatal ==
  [][\A r \in active :
       /\ (rot[r].pc = "load_secret" /\ rot'[r].pc # "load_secret" /\ SecretYieldsNothing)
            => /\ rot'[r].pc \in {"fatal", "init_error"}
               /\ rot'[r].pc = "init_error" => rot'[r].err = "secret_read"
               /\ rot'[r].tokens = EmptyDict /\ rot'[r].cycle = 0
               /\ file' = file /\ versions' = versions
               /\ secretExists' = secretExists /\ http' = http
       /\ rot'[r].pc = "fatal"
            => /\ rot'[r].cycle = 0 /\ rot'[r].tokens = EmptyDict
               /\ ~rot'[r].fileAttempted /\ ~rot'[r].secretAttempted
               /\ ws'[r] = IdleCall /\ http'.requests = 0
       /\ rot[r].pc = "fatal"
            => rot'[r] = rot[r] /\ ws'[r] = ws[r] /\ http' = http
    ]_vars

\* C5 witness: a corrupt file and a secret that is not JSON: fatal, nothing sent.
C5_Witness ==
  \E r \in active :
    /\ rot[r].pc = "fatal" /\ rot[r].err = "no_tokens"
    /\ file = Garbage
    /\ versions # <<>> /\ versions[Len(versions)].payload.bytes = Garbage
    /\ http.requests = 0

\* A token set is valid: access_token and refresh_token are both non-empty.
Valid(d) == ~Falsy(d.access_token) /\ ~Falsy(d.refresh_token)

\* C6: no invalid token set is in the token file, in any version of the
\* secret, in a Rotator's memory, or in what the Token Reader returned.
C6_NoInvalidTokenSet ==
  /\ file.t = "json" => Valid(file.v)
  /\ \A i \in 1..Len(versions) :
       versions[i].payload.bytes.t = "json" => Valid(versions[i].payload.bytes.v)
  /\ \A r \in active : rot[r].tokens # EmptyDict => Valid(rot[r].tokens)
  /\ reader.data.ok => Valid(reader.data.payload)

\* C7: after a successful refresh the resulting token set's refresh_token is
\* the response's when that is non-empty, and otherwise the refresh token
\* that was sent in the request.
C7_RefreshTokenCarriedForward ==
  \A r \in active :
    (rot[r].got /\ ~Falsy(rot[r].payload.access_token)) =>
      /\ rot[r].tokens.refresh_token =
           IF rot[r].payload.refresh_token \in {None, ""} THEN http.sent
           ELSE rot[r].payload.refresh_token
      /\ rot[r].token_data.refresh_token = rot[r].tokens.refresh_token

\* C7 witness: the second response has an empty refresh_token and the token
\* set keeps the refresh token the first response brought.
C7_Witness ==
  \E r \in active :
    /\ rot[r].got /\ rot[r].cycle = 2
    /\ rot[r].payload.access_token = AccessOf(2)
    /\ rot[r].payload.refresh_token = ""
    /\ http.sent = RefreshOf(1)
    /\ rot[r].tokens.refresh_token = RefreshOf(1)

\* The write_secret call of writer w returns in this step.
WriteReturns(w) == ws[w].pc # "returned" /\ ws'[w].pc = "returned"

\* The enabled versions of the secret.
EnabledVersions(vs) == {i \in 1..Len(vs) : vs[i].state = "ENABLED"}

\* C8: with one writer at a time, when write_secret(name, p) returns, whatever
\* list or disable calls failed in it or in the writes before it, a
\* read_secret(name) made then returns exactly p.
C8_WriteThenReadLatestWins ==
  [][\A w \in Writers :
       WriteReturns(w) =>
         read_secret(secretExists', versions', FALSE) =
           [st |-> "ok", text |-> ws'[w].payload.bytes]
    ]_vars

\* C8 witness: a third version was written, the listing failed, older
\* versions are still enabled, and the read returns the payload just written.
C8_Witness ==
  \E w \in Writers :
    /\ ws[w].pc = "returned" /\ ws[w].swallowed /\ ws[w].listed = <<>>
    /\ ws[w].keep = Len(versions) /\ Len(versions) >= 3
    /\ Cardinality(EnabledVersions(versions)) >= 2
    /\ versions[1].payload # ws[w].payload
    /\ read_secret(secretExists, versions, FALSE).text = ws[w].payload.bytes

C10_LatestStaysEnabled ==
  \A w \in Writers :
    (ws[w].pc \in {"list", "disable", "returned"} /\ ws[w].keep = Len(versions)) =>
      versions[ws[w].keep].state = "ENABLED"

\* C10 witness: the third write has returned after a failed disable call; its
\* version is enabled, and so is an older one.
C10_Witness ==
  \E w \in Writers :
    /\ ws[w].pc = "returned" /\ ws[w].swallowed /\ ws[w].listed # <<>>
    /\ ws[w].keep = Len(versions) /\ Len(versions) >= 3
    /\ versions[ws[w].keep].state = "ENABLED"
    /\ Cardinality(EnabledVersions(versions)) >= 2

\* The payload of the secret's latest version is the JSON text of a dict.
SecretHoldsJson ==
  /\ secretExists /\ versions # <<>>
  /\ versions[Len(versions)].state = "ENABLED"
  /\ versions[Len(versions)].payload.bytes.t = "json"

\* C11: a Token Reader call of either kind returns a value exactly when the
\* secret's latest version holds the JSON text of a token set whose
\* access_token is neither missing nor empty; in every other case (no
\* secret, no JSON, no access_token) both get_token_payload and
\* get_access_token fail.
C11_ReaderFailsWithoutAccessToken ==
  reader.called =>
    LET usable == SecretHoldsJson /\ ~Falsy(SecretTokenSet.access_token) IN
    /\ reader.data.ok <=> usable
    /\ reader.access.ok <=> usable

\* C12: a step in which a Token Reader call returns leaves the secret and its
\* versions, the token file, every Rotator's fields and write_secret call, the
\* bootstrap flow and the endpoint as they were, and what the call returns is
\* the payload of the secret's latest version, whatever the token file holds.
C12_ReaderOnlyReadsSecret ==
  [][reader'.called =>
       /\ UNCHANGED <<file, secretExists, versions, now, active, rot, ws, boot, http, gen>>
       /\ reader'.data.ok => SecretHoldsJson /\ reader'.data.payload = SecretTokenSet
       /\ reader'.access.ok =>
            SecretHoldsJson /\ reader'.access.token = SecretTokenSet.access_token
       /\ ~SecretHoldsJson => ~reader'.data.ok /\ ~reader'.access.ok
    ]_vars

\* C12 witness: a Reader call returned the secret's token set between the
\* steps of a write_secret call of a refresh cycle, the token file already
\* holding that cycle's newer token set.
C12_Witness ==
  \E r \in active :
    /\ reader.called /\ reader.access.ok
    /\ rot[r].pc = "write_secret" /\ ws[r].pc \in {"ensure", "add"}
    /\ file = json_dumps(rot[r].token_data)
    /\ reader.data.payload # rot[r].token_data
    /\ reader.access.token # rot[r].tokens.access_token

\* C13: after a successful response with an access_token, the token set built
\* has updated_at equal to the time of the call, expires_at equal to
\* updated_at + expires_in whenever the response has an expires_in (0
\* included), and no expires_at when the response has none.
C13_ExpiresAtWheneverExpiresIn ==
  \A r \in active :
    (rot[r].got /\ ~Falsy(rot[r].payload.access_token)) =>
      /\ rot[r].token_data.updated_at = <<rot[r].startedAt>>
      /\ rot[r].token_data.expires_in = rot[r].payload.expires_in
      /\ rot[r].token_data.expires_at =
           IF rot[r].payload.expires_in # <<>>
           THEN <<rot[r].startedAt + rot[r].payload.expires_in[1]>>
           ELSE <<>>

\* The secret has a version whose payload is the token set d.
InSecret(d) ==
  \E i \in 1..Len(versions) : versions[i].payload = encode_utf8(json_dumps(d))

\* C14: in a refresh cycle the token file is written before the secret store:
\* whenever the cycle has called the secret store, or the secret holds the
\* cycle's token set, the file write of that cycle has been performed, and
\* until the call ends the file holds that token set.
C14_FileBeforeSecret ==
  \A r \in active :
    (rot[r].got /\ (rot[r].secretAttempted \/ ws[r].pc # "idle"
                      \/ InSecret(rot[r].token_data))) =>
      /\ rot[r].fileAttempted
      /\ rot[r].pc = "write_secret" => file = json_dumps(rot[r].token_data)

\* C14 witness: the second cycle's token set is the secret's latest version
\* and the file holds it.
C14_Witness ==
  \E r \in active :
    /\ rot[r].got /\ rot[r].cycle = 2 /\ rot[r].pc = "write_secret"
    /\ ws[r].pc = "returned"
    /\ versions[Len(versions)].payload = encode_utf8(json_dumps(rot[r].token_data))
    /\ rot[r].fileAttempted /\ file = json_dumps(rot[r].token_data)

\* C15: the two writes of a refresh cycle are independent: when a call that
\* attempted the file write is over, it has attempted the secret-store write
\* too, whatever the file write did, and a sink whose write succeeded holds
\* the new token set whatever the other write did.
C15_WritesIndependent ==
  \A r \in active :
    (rot[r].fileAttempted /\ (Raised(r) \/ Returned(r))) =>
      /\ rot[r].secretAttempted
      /\ rot[r].pc = "write_secret" => file = json_dumps(rot[r].token_data)
      /\ ws[r].pc = "returned" =>
           versions[Len(versions)].payload = encode_utf8(json_dumps(rot[r].token_data))

\* The refresh_once call of r raises in this step because the request failed.
RequestFails(r) == rot[r].pc = "ready" /\ rot'[r].pc = "raised" /\ rot'[r].err = "http"

\* C16: when the refresh request fails, the call raises after exactly one
\* request, with the in-memory token set, the token file and the secret as
\* they were; until the call is over nothing more is requested or written;
\* and in one-shot mode the error ends the run with that error.
C16_FailedRequestChangesNothing ==
  [][\A r \in active :
       /\ RequestFails(r) =>
            /\ http'.requests = http.requests + 1
            /\ rot'[r].tokens = rot[r].tokens
            /\ file' = file /\ versions' = versions /\ secretExists' = secretExists
            /\ ~rot'[r].fileAttempted /\ ~rot'[r].secretAttempted
            /\ ws'[r] = IdleCall
       /\ (rot[r].pc = "raised" /\ rot[r].err = "http") =>
            /\ http' = http
            /\ rot'[r].tokens = rot[r].tokens
            /\ file' = file /\ versions' = versions /\ secretExists' = secretExists
            /\ ws'[r] = IdleCall
            /\ rot[r].mode = "once" =>
                 rot'[r].pc \in {"raised", "exit_error"} /\ rot'[r].err = "http"
       /\ (rot[r].pc = "exit_error" /\ rot[r].err = "http") =>
            rot'[r] = rot[r] /\ http' = http
    ]_vars

\* C16 witness: the one-shot call ended with the request's error after one
\* request, the Rotator's token set being the one it started with.
C16_Witness ==
  \E r \in active :
    /\ rot[r].mode = "once" /\ rot[r].pc = "exit_error" /\ rot[r].err = "http"
    /\ http.requests = 1 /\ http.sent = "R0"
    /\ rot[r].tokens = SeedTokens /\ rot[r].tokens = rot[r].tokens0
    /\ file = json_dumps(SeedTokens)

\* C17: a failed disable call does not end write_secret and does not reach
\* its caller: once the version is added and listed the call only returns,
\* and when it returns a disable call has been made for every version the
\* listing showed enabled, other than the new one, whichever of these calls
\* failed.
C17_DisableFailureSwallowed ==
  [][\A w \in Writers :
       /\ ws[w].pc = "disable" => ws'[w].pc \in {"disable", "returned"}
       /\ (WriteReturns(w) /\ ws'[w].listed # <<>>) =>
            /\ ws'[w].attempted =
                 {j \in 1..Len(ws'[w].listed) :
                    j # ws'[w].keep /\ ws'[w].listed[j] = "ENABLED"}
            /\ ws'[w].keep = Len(ws'[w].listed)
    ]_vars

\* C17 witness: write_secret returned after two disable calls, the first of
\* which failed (its version is still enabled) and the second succeeded.
C17_Witness ==
  \E w \in Writers :
    /\ ws[w].pc = "returned" /\ ws[w].swallowed
    /\ ws[w].attempted = {1, 2} /\ ws[w].keep = 3
    /\ versions[1].state = "ENABLED" /\ versions[2].state = "DISABLED"
    /\ versions[3].state = "ENABLED"

\* C19: once the endpoint has answered a request with a valid response that
\* carries a refresh token, every later request of the Rotator sends the
\* refresh token of the last such response, whether or not the writes of that
\* cycle succeeded: a replaced refresh token is not sent again.
C19_RotatedRefreshTokenNeverResent ==
  [][(http'.requests > http.requests /\ http.issued # None) =>
       http'.sent = http.issued
    ]_vars

\* C19 witness: the first cycle got R1 and failed in a write, so that neither
\* the file nor the secret holds R1, and the second cycle's request sent R1.
C19_Witness ==
  \E r \in active :
    /\ rot[r].mode = "loop" /\ rot[r].cycle = 2 /\ rot[r].prevFailed
    /\ rot[r].pc = "raised" /\ rot[r].err = "http"
    /\ http.requests = 2 /\ http.sent = RefreshOf(1) /\ http.issued = RefreshOf(1)
    /\ ~(file.t = "json" /\ file.v.refresh_token = RefreshOf(1))
    /\ \A i \in 1..Len(versions) :
         ~(versions[i].payload.bytes.t = "json"
           /\ versions[i].payload.bytes.v.refresh_token = RefreshOf(1))

\* C20: when a refresh_once call returns normally, the Rotator's in-memory
\* token set, the token set in the token file and the token set a read of
\* the secret's latest version yields are all the token set the call returns.
C20_ReturnedSetEverywhere ==
  \A r \in active :
    Returned(r) =>
      LET returned == rot[r].token_data
          rs == read_secret(secretExists, versions, FALSE)
      IN /\ rot[r].tokens = returned
         /\ _load_tokens_from_file(file) = returned
         /\ rs.st = "ok" /\ _load_tokens_from_secret(rs) = returned
         /\ returned # EmptyDict /\ ~Falsy(returned.access_token)

\* C20 witness: the second call returned, after a first call whose write to
\* the secret store failed; file, memory and secret hold the second token set.
C20_Witness ==
  \E r \in active :
    /\ Returned(r) /\ rot[r].cycle = 2 /\ rot[r].prevFailed
    /\ rot[r].tokens.access_token = AccessOf(2)
    /\ file = json_dumps(rot[r].tokens)
    /\ versions[Len(versions)].payload = encode_utf8(json_dumps(rot[r].tokens))
    /\ \A i \in 1..Len(versions) :
         ~(versions[i].payload.bytes.t = "json"
           /\ versions[i].payload.bytes.v.access_token = AccessOf(1))

\* The most recently added version of the secret is disabled.
LatestDisabled == versions # <<>> /\ versions[Len(versions)].state = "DISABLED"

\* C18: with a single writer the most recently added version is never
\* disabled; with two Rotators it is disabled only by a write_secret call
\* whose listing showed a version added after its own, and a read of the
\* latest version made then fails.
C18_OnlyRacingWritersDisableLatest ==
  /\ Serial => ~LatestDisabled
  /\ LatestDisabled =>
       /\ \E w \in active :
            /\ ws[w].keep < Len(ws[w].listed)
            /\ Len(versions) \in ws[w].attempted
       /\ read_secret(secretExists, versions, FALSE).st = "error"
       /\ reader.called => ~reader.data.ok /\ ~reader.access.ok

\* C18 witness: two Rotators each added a version; the one that added the
\* older of the two listed both and disabled the newer one, and the Token
\* Reader's call then failed reading the latest version.
C18_Witness ==
  /\ active = Rotators
  /\ LatestDisabled /\ Len(versions) = 3
  /\ \E w \in Rotators :
       /\ ws[w].keep = 2 /\ ws[w].listed = <<"ENABLED", "ENABLED", "ENABLED">>
       /\ ws[w].attempted = {1, 3} /\ ws[w].pc = "returned"
  /\ \E w \in Rotators : ws[w].keep = 3 /\ ws[w].pc \in {"list", "disable", "returned"}
  /\ reader.called /\ reader.data.err = "secret_read"

\* The token file holds the JSON text of a token set.
FileIntact == file.t = "json"

\* C21: while the token file holds a token set, that token set is not older
\* than the one in any version of the secret, the latest included, and is
\* the same token set when it is as old; a Rotator started then takes the
\* token set from the file, which is therefore the last one persisted.
C21_FileNeverOlderThanSecret ==
  FileIntact =>
    /\ gen.file >= 1
    /\ \A i \in 1..Len(versions) : gen.file >= gen.versions[i]
    /\ (versions # <<>> /\ gen.file = gen.versions[Len(versions)]) =>
         versions[Len(versions)].payload = encode_utf8(file)
    /\ Truthy(_load_tokens_from_file(file))
    /\ _load_tokens_from_file(file) = file.v

\* C21 witness: the first cycle wrote the file and failed in the secret
\* store, the second did the same: the file holds the second cycle's token
\* set, two token sets newer than the seed the secret's latest version holds.
C21_Witness ==
  \E r \in active :
    /\ rot[r].cycle = 2 /\ rot[r].prevFailed /\ Raised(r)
    /\ rot[r].pc = "write_secret"
    /\ FileIntact /\ file.v.access_token = AccessOf(2)
    /\ Len(versions) = 1 /\ versions[1].payload = encode_utf8(json_dumps(SeedTokens))
    /\ gen.file = gen.versions[1] + 2

====
